---- MODULE Spec2Model ----
(***************************************************************************)
(* K-Vault: the hierarchical note/folder store of src/db_manager.py        *)
(* (DatabaseManager) with its FTS5 search index and the three              *)
(* synchronisation triggers, as a state machine.                           *)
(*                                                                         *)
(* The store is one SQLite file.  Its state is the rows of the two tables, *)
(* the contents of the external-content FTS5 index, the schema objects,    *)
(* the two AUTOINCREMENT counters and the wall clock that                  *)
(* CURRENT_TIMESTAMP reads.  Every public method of DatabaseManager is one *)
(* action; a method that raises leaves the rows as they were (SQLite       *)
(* rolls the failed statement back) and records the exception in `last`.   *)
(***************************************************************************)
EXTENDS Integers, Sequences, FiniteSets, TLC

(* ----------------------------- bounds ---------------------------------- *)
MaxFolders == 3      \* folder rows ever inserted (ids 1..MaxFolders)
MaxNotes == 2        \* note rows ever inserted (ids 1..MaxNotes)
MaxNoteFolders == 1  \* folders used by the specifications that explore notes
MaxClock == 2        \* the clock runs 0..MaxClock
MaxQueryLen == 3     \* pieces in a search query
MaxRefFolders == 2   \* folders created where references are checked
MaxRefNotes == 1     \* notes created where references are checked

(* ----------------------------- values ---------------------------------- *)
\* SQL NULL / Python None for an integer reference.  AUTOINCREMENT ids
\* start at 1, so 0 is never the id of a row.
NULL == 0

FolderIds == 1..MaxFolders
NoteIds == 1..MaxNotes
Refs == FolderIds \cup {NULL}
NoteFolderIds == 1..MaxNoteFolders
NoteRefs == NoteFolderIds \cup {NULL}
Names == {"", "Projects", "Archive"}
Titles == {"", "Alpha", "Todo"}
Contents == {"beta", "gamma"}

\* Optional[...] results of get_folder / get_note.
None == <<>>
Some(x) == <<x>>

\* MainWindow before a note is loaded: current_note is None, the editor is
\* empty and its document unmodified.
NoWindow == [current_note |-> None, editor |-> "", modified |-> FALSE]

VARIABLES
    conn,        \* "open" | "closed": DatabaseManager._conn
    tables,      \* tables present in the file
    triggers,    \* triggers present in the file
    folders,     \* rows of table folders: id -> row
    notes,       \* rows of table notes: id -> row
    fts,         \* contents of the FTS5 index notes_fts
    ftsDamaged,  \* a 'delete' was applied for text the index did not hold
    seqFolders,  \* sqlite_sequence entry of folders (AUTOINCREMENT)
    seqNotes,    \* sqlite_sequence entry of notes (AUTOINCREMENT)
    now,         \* the clock read by CURRENT_TIMESTAMP
    health,      \* what reading the file gives: "ok" | "problem" | "malformed"
    rules,       \* the CHECK and UNIQUE constraints the tables were created with
    window,      \* MainWindow: the note held by the editor and the editor text
    last         \* the last call made on the manager and its outcome

vars == <<conn, tables, triggers, folders, notes, fts, ftsDamaged,
          seqFolders, seqNotes, now, health, rules, window, last>>

store == <<tables, triggers, folders, notes, fts, ftsDamaged,
           seqFolders, seqNotes, health, rules>>

(* ------------------------- timestamps ---------------------------------- *)
\* CURRENT_TIMESTAMP yields the text 'YYYY-MM-DD HH:MM:SS': a date part and
\* a time-of-day part (a day of the model has two ticks).
CurrentTimestamp(t) == <<t \div 2, t % 2>>

\* datetime.fromisoformat: the text back to a point in time.
FromIsoFormat(ts) == ts[1] * 2 + ts[2]

(* ------------------------- model classes ------------------------------- *)
\* Note.from_dict(dict(row))
NoteFromDict(id, row) ==
    [id |-> id, title |-> row.title, content |-> row.content,
     folder_id |-> row.folder_id,
     created_at |-> FromIsoFormat(row.created_at),
     updated_at |-> FromIsoFormat(row.updated_at)]

\* Folder.from_dict(dict(row))
FolderFromDict(id, row) ==
    [id |-> id, name |-> row.name, parent_id |-> row.parent_id,
     created_at |-> FromIsoFormat(row.created_at),
     updated_at |-> FromIsoFormat(row.updated_at)]

(* ------------------------- the FTS5 index ------------------------------ *)
FtsEntry(id, row) == [rowid |-> id, title |-> row.title, content |-> row.content]

\* INSERT INTO notes_fts(rowid, title, content) VALUES (...)
FtsInsert(idx, e) == idx \cup {e}

\* INSERT INTO notes_fts(notes_fts, rowid, title, content) VALUES('delete', ...)
FtsDelete(idx, e) == idx \ {e}

\* CREATE TRIGGER notes_ai AFTER INSERT ON notes
notes_ai(trg, idx, new) ==
    IF "notes_ai" \in trg THEN FtsInsert(idx, new) ELSE idx

\* CREATE TRIGGER notes_ad AFTER DELETE ON notes
notes_ad(trg, idx, old) ==
    IF "notes_ad" \in trg THEN FtsDelete(idx, old) ELSE idx

\* notes_au without its 'delete' step: the old text stays in the index.
notes_au_InsertOnly(trg, idx, old, new) ==
    IF "notes_au" \in trg THEN FtsInsert(idx, new) ELSE idx

\* CREATE TRIGGER notes_au AFTER UPDATE ON notes
notes_au(trg, idx, old, new) ==
    IF "notes_au" \in trg THEN FtsInsert(FtsDelete(idx, old), new) ELSE idx

\* notes_au is FOR EACH ROW: it fires once per updated row of ids.
RECURSIVE NotesAuEach(_, _, _, _, _)
NotesAuEach(trg, idx, ids, oldRows, newRows) ==
    IF ids = {} THEN idx
    ELSE LET n == CHOOSE x \in ids : TRUE
         IN NotesAuEach(trg,
                        notes_au(trg, idx, FtsEntry(n, oldRows[n]), FtsEntry(n, newRows[n])),
                        ids \ {n}, oldRows, newRows)

\* The 'delete' command of an external-content FTS5 table must be given the
\* text the index holds for that rowid.  This is the set of notes, among
\* ids, for which a delete trigger would hand it text the index lacks.
Unindexed(trg, name, idx, ids) ==
    IF name \in trg THEN {n \in ids : FtsEntry(n, notes[n]) \notin idx} ELSE {}

(* ------------------------- schema -------------------------------------- *)
AllTables == {"folders", "notes", "notes_fts"}
AllTriggers == {"notes_ai", "notes_ad", "notes_au"}

\* The constraints that CREATE TABLE of init_schema declares for table t.
TableRules(t) ==
    CASE t = "folders" -> {"folders.CHECK", "folders.UNIQUE"}
      [] t = "notes" -> {"notes.CHECK", "notes.UNIQUE"}
      [] OTHER -> {}

AllRules == TableRules("folders") \cup TableRules("notes")

\* One statement of the script of init_schema applied to the schema state
\* s = [tables, triggers, rules, fts, damaged, err]; a statement after an
\* error is not run.
DropTableIfExists(s, t) ==
    IF s.err THEN s
    ELSE [s EXCEPT !.tables = @ \ {t},
                   !.fts = IF t = "notes_fts" THEN {} ELSE @,
                   !.damaged = IF t = "notes_fts" THEN FALSE ELSE @]

\* CREATE TABLE IF NOT EXISTS leaves an existing table as it is, with the
\* constraints it was created with.
CreateTableIfNotExists(s, t) ==
    IF s.err \/ t \in s.tables THEN s
    ELSE [s EXCEPT !.tables = @ \cup {t}, !.rules = @ \cup TableRules(t)]

DropTriggerIfExists(s, t) ==
    IF s.err THEN s ELSE [s EXCEPT !.triggers = @ \ {t}]

\* CREATE TRIGGER has no IF NOT EXISTS: it fails on an existing trigger.
CreateTrigger(s, t) ==
    IF s.err THEN s
    ELSE IF t \in s.triggers THEN [s EXCEPT !.err = TRUE]
    ELSE [s EXCEPT !.triggers = @ \cup {t}]

\* init_schema without the three DROP TRIGGER IF EXISTS statements.
DropTriggers_Skipped(s) == s

DropTriggers(s) ==
    DropTriggerIfExists(DropTriggerIfExists(DropTriggerIfExists(s,
        "notes_ai"), "notes_ad"), "notes_au")

CreateTriggers(s) ==
    CreateTrigger(CreateTrigger(CreateTrigger(s,
        "notes_ai"), "notes_ad"), "notes_au")

\* DatabaseManager.init_schema: the whole script, in order.
InitSchemaScript(s) ==
    CreateTriggers(DropTriggers(
        CreateTableIfNotExists(
            CreateTableIfNotExists(
                CreateTableIfNotExists(
                    DropTableIfExists(s, "notes_fts"),
                    "folders"),
                "notes"),
            "notes_fts")))

EmptyFile == [tables |-> {}, triggers |-> {}, rules |-> {}, fts |-> {},
              damaged |-> FALSE, err |-> FALSE]

SchemaState == [tables |-> tables, triggers |-> triggers, rules |-> rules,
                fts |-> fts, damaged |-> ftsDamaged, err |-> FALSE]

\* The earlier schema version, db_utils.Database.init_schema: its CREATE
\* TABLE IF NOT EXISTS statements declare name, title and content NOT NULL
\* and the foreign keys, and neither a CHECK nor a UNIQUE constraint.
LegacyCreateTableIfNotExists(s, t) ==
    IF s.err \/ t \in s.tables THEN s ELSE [s EXCEPT !.tables = @ \cup {t}]

\* db_utils creates its triggers with CREATE TRIGGER IF NOT EXISTS.
LegacyCreateTriggerIfNotExists(s, t) ==
    IF s.err \/ t \in s.triggers THEN s
    ELSE [s EXCEPT !.triggers = @ \cup {t}]

LegacyInitSchemaScript(s) ==
    LegacyCreateTriggerIfNotExists(
        LegacyCreateTriggerIfNotExists(
            LegacyCreateTriggerIfNotExists(
                LegacyCreateTableIfNotExists(
                    LegacyCreateTableIfNotExists(
                        LegacyCreateTableIfNotExists(s, "folders"),
                        "notes"),
                    "notes_fts"),
                "notes_ai"),
            "notes_ad"),
        "notes_au")

(* ------------------------- call records -------------------------------- *)
\* op: the method called; id: the row it was called on (for a create, the
\* id it returned); recursive: the flag of delete_folder; err: "none", or
\* what the raised exception names: the constraint of an IntegrityError
\* ("CHECK", "UNIQUE", "FOREIGN KEY"), "malformed" for a DatabaseError,
\* "exists" for the OperationalError of CREATE TRIGGER; ret: what a query
\* returned (None for every other call).
Call(op, id, recursive, err) ==
    [op |-> op, id |-> id, recursive |-> recursive, err |-> err, ret |-> None]

\* A query returned ret; it touches no row.
Returned(op, id, ret) ==
    /\ last' = [Call(op, id, FALSE, "none") EXCEPT !.ret = ret]
    /\ UNCHANGED <<conn, store, now, window>>

\* The call raised: SQLite has rolled the statement back.
Failed(op, id, recursive, err) ==
    /\ last' = Call(op, id, recursive, err)
    /\ UNCHANGED <<conn, store, now, window>>

\* The call returned without touching a row.
NoRows(op, id, recursive) ==
    /\ last' = Call(op, id, recursive, "none")
    /\ UNCHANGED <<conn, store, now, window>>

(* ------------------------- initial state ------------------------------- *)
\* DatabaseManager(db_path) on a path where no file exists yet.
Init ==
    /\ conn = "open"
    /\ tables = InitSchemaScript(EmptyFile).tables
    /\ triggers = InitSchemaScript(EmptyFile).triggers
    /\ folders = [f \in {} |-> NULL]
    /\ notes = [n \in {} |-> NULL]
    /\ fts = {}
    /\ ftsDamaged = FALSE
    /\ seqFolders = 0
    /\ seqNotes = 0
    /\ now = 0
    /\ health = "ok"
    /\ rules = InitSchemaScript(EmptyFile).rules
    /\ window = NoWindow
    /\ last = Call("open", NULL, FALSE, "none")

\* The file that db_utils.Database() has created on a path where no file
\* existed, before DatabaseManager opens it.
InitLegacy ==
    /\ conn = "closed"
    /\ tables = LegacyInitSchemaScript(EmptyFile).tables
    /\ triggers = LegacyInitSchemaScript(EmptyFile).triggers
    /\ folders = [f \in {} |-> NULL]
    /\ notes = [n \in {} |-> NULL]
    /\ fts = {}
    /\ ftsDamaged = FALSE
    /\ seqFolders = 0
    /\ seqNotes = 0
    /\ now = 0
    /\ health = "ok"
    /\ rules = LegacyInitSchemaScript(EmptyFile).rules
    /\ window = NoWindow
    /\ last = Call("close", NULL, FALSE, "none")

(* ------------------------- constraints --------------------------------- *)
\* folders: name TEXT NOT NULL CHECK (name <> '')
FolderCheckViolated(name) == "folders.CHECK" \in rules /\ name = ""

\* The folders table without its UNIQUE(parent_id, name) constraint.
FolderUnique_Missing(self, parent, name) == FALSE

\* folders: UNIQUE(parent_id, name).  SQLite treats NULLs as distinct in a
\* UNIQUE constraint, so a row whose parent_id is NULL never conflicts.
FolderUniqueViolated(self, parent, name) ==
    /\ "folders.UNIQUE" \in rules
    /\ parent # NULL
    /\ \E f \in DOMAIN folders \ {self} :
          folders[f].parent_id = parent /\ folders[f].name = name

\* A connection on which PRAGMA foreign_keys = ON was not executed.
FkViolated_PragmaOff(self, ref) == FALSE

\* FOREIGN KEY (parent_id) REFERENCES folders(id), and the same for
\* notes.folder_id, checked when the statement ends: the rows in self are
\* the ones the statement itself writes.
FkViolated(self, ref) == ref # NULL /\ ref \notin (DOMAIN folders \cup self)

\* notes: title TEXT NOT NULL CHECK (title <> '')
NoteCheckViolated(title) == "notes.CHECK" \in rules /\ title = ""

\* The notes table without its UNIQUE(folder_id, title) constraint.
NoteUnique_Missing(self, folder, title) == FALSE

\* notes: UNIQUE(folder_id, title), NULLs distinct.
NoteUniqueViolated(self, folder, title) ==
    /\ "notes.UNIQUE" \in rules
    /\ folder # NULL
    /\ \E n \in DOMAIN notes \ {self} :
          notes[n].folder_id = folder /\ notes[n].title = title

\* The constraint SQLite reports for a row of folders: column checks first,
\* then the unique index, then (at the end of the statement) foreign keys.
FolderViolation(self, parent, name) ==
    IF FolderCheckViolated(name) THEN "CHECK"
    ELSE IF FolderUniqueViolated(self, parent, name) THEN "UNIQUE"
    ELSE IF FkViolated(IF self = NULL THEN {} ELSE {self}, parent) THEN "FOREIGN KEY"
    ELSE "none"

\* The same for a row of notes.
NoteViolation(self, folder, title) ==
    IF NoteCheckViolated(title) THEN "CHECK"
    ELSE IF NoteUniqueViolated(self, folder, title) THEN "UNIQUE"
    ELSE IF FkViolated({}, folder) THEN "FOREIGN KEY"
    ELSE "none"

(* ------------------------- folder operations --------------------------- *)
\* DatabaseManager.create_folder
CreateFolder(name, parent) ==
    /\ conn = "open"
    /\ IF FolderViolation(NULL, parent, name) # "none"
       THEN Failed("createFolder", NULL, FALSE, FolderViolation(NULL, parent, name))
       ELSE /\ seqFolders < MaxFolders
            /\ LET id == seqFolders + 1
                   ts == CurrentTimestamp(now)
               IN /\ folders' = [f \in DOMAIN folders \cup {id} |->
                                    IF f = id
                                    THEN [name |-> name, parent_id |-> parent,
                                          created_at |-> ts, updated_at |-> ts]
                                    ELSE folders[f]]
                  /\ seqFolders' = id
                  /\ last' = Call("createFolder", id, FALSE, "none")
            /\ UNCHANGED <<conn, tables, triggers, notes, fts, ftsDamaged,
                           seqNotes, now, health, rules, window>>

\* DatabaseManager.get_folder
GetFolder(id) ==
    IF id \in DOMAIN folders THEN Some(FolderFromDict(id, folders[id])) ELSE None

\* ON DELETE CASCADE on folders.parent_id: the rows deleted together with
\* the rows in del, at any depth.
RECURSIVE Cascade(_)
Cascade(del) ==
    LET more == {f \in DOMAIN folders : folders[f].parent_id \in del} \ del
    IN IF more = {} THEN del ELSE Cascade(del \cup more)

\* DatabaseManager.get_folders: the folders whose parent_id is parent (the
\* root folders for NULL), ORDER BY name.  NameRank is the collation order
\* of the names; rows of equal name come out in rowid order.
NameRank(name) ==
    CASE name = "" -> 0
      [] name = "Archive" -> 1
      [] name = "Projects" -> 2

RECURSIVE FoldersByName(_)
FoldersByName(S) ==
    IF S = {} THEN <<>>
    ELSE LET m == CHOOSE x \in S : \A y \in S \ {x} :
                     \/ NameRank(folders[x].name) < NameRank(folders[y].name)
                     \/ /\ NameRank(folders[x].name) = NameRank(folders[y].name)
                        /\ x < y
         IN <<m>> \o FoldersByName(S \ {m})

GetFolders(parent) ==
    FoldersByName({f \in DOMAIN folders : folders[f].parent_id = parent})

\* move_folder refusing a target inside the subtree of the moved folder.
MoveFolder_CycleChecked(id, target) ==
    /\ conn = "open"
    /\ IF id \notin DOMAIN folders
       THEN NoRows("moveFolder", id, FALSE)
       ELSE IF FolderViolation(id, target, folders[id].name) # "none"
       THEN Failed("moveFolder", id, FALSE, FolderViolation(id, target, folders[id].name))
       ELSE IF target \in Cascade({id})
       THEN Failed("moveFolder", id, FALSE, "cycle")
       ELSE /\ folders' = [folders EXCEPT ![id].parent_id = target,
                                          ![id].updated_at = CurrentTimestamp(now)]
            /\ last' = Call("moveFolder", id, FALSE, "none")
            /\ UNCHANGED <<conn, tables, triggers, notes, fts, ftsDamaged,
                           seqFolders, seqNotes, now, health, rules, window>>

\* DatabaseManager.move_folder
MoveFolder(id, target) ==
    /\ conn = "open"
    /\ IF id \notin DOMAIN folders
       THEN NoRows("moveFolder", id, FALSE)
       ELSE IF FolderViolation(id, target, folders[id].name) # "none"
       THEN Failed("moveFolder", id, FALSE, FolderViolation(id, target, folders[id].name))
       ELSE /\ folders' = [folders EXCEPT ![id].parent_id = target,
                                          ![id].updated_at = CurrentTimestamp(now)]
            /\ last' = Call("moveFolder", id, FALSE, "none")
            /\ UNCHANGED <<conn, tables, triggers, notes, fts, ftsDamaged,
                           seqFolders, seqNotes, now, health, rules, window>>

\* The rows the DELETE statement of delete_folder names in its WHERE clause.
DeleteFolderWhere(id, recursive) ==
    IF recursive
    THEN {f \in DOMAIN folders : f = id \/ folders[f].parent_id = id}
    ELSE {f \in DOMAIN folders : f = id}

\* ON DELETE SET NULL on notes.folder_id: the notes of the deleted folders.
Detached(del) == {n \in DOMAIN notes : notes[n].folder_id \in del}

\* DatabaseManager.delete_folder.  The SET NULL of each detached note is an
\* UPDATE of notes and fires notes_au.  When the index lacks the text the
\* trigger deletes, FTS5 either reports the index malformed (the statement
\* is rolled back and DatabaseError raised) or goes on with a damaged index.
DeleteFolder(id, recursive) ==
    /\ conn = "open"
    /\ LET del == Cascade(DeleteFolderWhere(id, recursive))
           det == Detached(del)
           newNotes == [n \in DOMAIN notes |->
                           IF n \in det THEN [notes[n] EXCEPT !.folder_id = NULL]
                           ELSE notes[n]]
           bad == Unindexed(triggers, "notes_au", fts, det)
       IN IF del = {}
          THEN NoRows("deleteFolder", id, recursive)
          ELSE \E raises \in IF bad = {} THEN {FALSE} ELSE BOOLEAN :
             IF raises
             THEN Failed("deleteFolder", id, recursive, "malformed")
             ELSE /\ folders' = [f \in DOMAIN folders \ del |-> folders[f]]
                  /\ notes' = newNotes
                  /\ fts' = NotesAuEach(triggers, fts, det, notes, newNotes)
                  /\ ftsDamaged' = (ftsDamaged \/ bad # {})
                  /\ last' = Call("deleteFolder", id, recursive, "none")
                  /\ UNCHANGED <<conn, tables, triggers, seqFolders, seqNotes, now, health, rules, window>>

(* ------------------------- note operations ----------------------------- *)
\* create_note on a table declared INTEGER PRIMARY KEY without
\* AUTOINCREMENT: the new id is the largest rowid in the table plus one.
CreateNote_RowidReused(title, content, folder) ==
    /\ conn = "open"
    /\ IF NoteViolation(NULL, folder, title) # "none"
       THEN Failed("createNote", NULL, FALSE, NoteViolation(NULL, folder, title))
       ELSE LET top == CHOOSE m \in DOMAIN notes \cup {0} :
                          \A n \in DOMAIN notes : n <= m
                id == top + 1
                ts == CurrentTimestamp(now)
                row == [title |-> title, content |-> content, folder_id |-> folder,
                        created_at |-> ts, updated_at |-> ts]
            IN /\ id <= MaxNotes
               /\ notes' = [n \in DOMAIN notes \cup {id} |->
                               IF n = id THEN row ELSE notes[n]]
               /\ fts' = notes_ai(triggers, fts, FtsEntry(id, row))
               /\ seqNotes' = IF id > seqNotes THEN id ELSE seqNotes
               /\ last' = Call("createNote", id, FALSE, "none")
               /\ UNCHANGED <<conn, tables, triggers, folders, ftsDamaged,
                              seqFolders, now, health, rules, window>>

\* DatabaseManager.create_note
CreateNote(title, content, folder) ==
    /\ conn = "open"
    /\ IF NoteViolation(NULL, folder, title) # "none"
       THEN Failed("createNote", NULL, FALSE, NoteViolation(NULL, folder, title))
       ELSE /\ seqNotes < MaxNotes
            /\ LET id == seqNotes + 1
                   ts == CurrentTimestamp(now)
                   row == [title |-> title, content |-> content, folder_id |-> folder,
                           created_at |-> ts, updated_at |-> ts]
               IN /\ notes' = [n \in DOMAIN notes \cup {id} |->
                                  IF n = id THEN row ELSE notes[n]]
                  /\ fts' = notes_ai(triggers, fts, FtsEntry(id, row))
                  /\ seqNotes' = id
                  /\ last' = Call("createNote", id, FALSE, "none")
            /\ UNCHANGED <<conn, tables, triggers, folders, ftsDamaged,
                           seqFolders, now, health, rules, window>>

\* get_note answering with a blank Note when the row is absent.
GetNote_BlankForAbsent(id) ==
    IF id \in DOMAIN notes THEN Some(NoteFromDict(id, notes[id]))
    ELSE Some([id |-> NULL])

\* DatabaseManager.get_note
GetNote(id) ==
    IF id \in DOMAIN notes THEN Some(NoteFromDict(id, notes[id])) ELSE None

\* DatabaseManager.get_folder called by a client.
GetFolderCall(id) ==
    /\ conn = "open"
    /\ Returned("getFolder", id, GetFolder(id))

\* DatabaseManager.get_note called by a client.
GetNoteCall(id) ==
    /\ conn = "open"
    /\ Returned("getNote", id, GetNote(id))

\* UPDATE notes SET ... WHERE id = ?: the one row id becomes newRow, under
\* the constraints of the table and with the notes_au trigger.
UpdateNoteRow(op, id, newRow) ==
    IF NoteViolation(id, newRow.folder_id, newRow.title) # "none"
    THEN Failed(op, id, FALSE, NoteViolation(id, newRow.folder_id, newRow.title))
    ELSE LET bad == Unindexed(triggers, "notes_au", fts, {id})
         IN \E raises \in IF bad = {} THEN {FALSE} ELSE BOOLEAN :
               IF raises
               THEN Failed(op, id, FALSE, "malformed")
               ELSE /\ notes' = [notes EXCEPT ![id] = newRow]
                    /\ fts' = notes_au(triggers, fts, FtsEntry(id, notes[id]),
                                       FtsEntry(id, newRow))
                    /\ ftsDamaged' = (ftsDamaged \/ bad # {})
                    /\ last' = Call(op, id, FALSE, "none")
                    /\ UNCHANGED <<conn, tables, triggers, folders,
                                   seqFolders, seqNotes, now, health, rules, window>>

\* update_note as INSERT OR REPLACE: a row that does not exist is written.
UpdateNote_Upsert(id, title, content, folder) ==
    /\ conn = "open"
    /\ LET ts == CurrentTimestamp(now)
           row == [title |-> title, content |-> content, folder_id |-> folder,
                   created_at |-> ts, updated_at |-> ts]
       IN IF id \notin DOMAIN notes
          THEN /\ notes' = [n \in DOMAIN notes \cup {id} |->
                               IF n = id THEN row ELSE notes[n]]
               /\ fts' = notes_ai(triggers, fts, FtsEntry(id, row))
               /\ last' = Call("updateNote", id, FALSE, "none")
               /\ UNCHANGED <<conn, tables, triggers, folders, ftsDamaged,
                              seqFolders, seqNotes, now, health, rules, window>>
          ELSE UpdateNoteRow("updateNote", id,
                   [notes[id] EXCEPT !.title = title, !.content = content,
                                     !.folder_id = folder, !.updated_at = ts])

\* update_note with content left out of the SET list.
UpdateNote_ContentNotWritten(id, title, content, folder) ==
    /\ conn = "open"
    /\ IF id \notin DOMAIN notes
       THEN NoRows("updateNote", id, FALSE)
       ELSE UpdateNoteRow("updateNote", id,
                [notes[id] EXCEPT !.title = title, !.folder_id = folder,
                                  !.updated_at = CurrentTimestamp(now)])

\* DatabaseManager.update_note
UpdateNote(id, title, content, folder) ==
    /\ conn = "open"
    /\ IF id \notin DOMAIN notes
       THEN NoRows("updateNote", id, FALSE)
       ELSE UpdateNoteRow("updateNote", id,
                [notes[id] EXCEPT !.title = title, !.content = content,
                                  !.folder_id = folder,
                                  !.updated_at = CurrentTimestamp(now)])

\* move_note_to_folder writing created_at as well.
MoveNote_CreatedAtReset(id, target) ==
    /\ conn = "open"
    /\ IF id \notin DOMAIN notes
       THEN NoRows("moveNote", id, FALSE)
       ELSE UpdateNoteRow("moveNote", id,
                [notes[id] EXCEPT !.folder_id = target,
                                  !.created_at = CurrentTimestamp(now),
                                  !.updated_at = CurrentTimestamp(now)])

\* DatabaseManager.move_note_to_folder
MoveNote(id, target) ==
    /\ conn = "open"
    /\ IF id \notin DOMAIN notes
       THEN NoRows("moveNote", id, FALSE)
       ELSE UpdateNoteRow("moveNote", id,
                [notes[id] EXCEPT !.folder_id = target,
                                  !.updated_at = CurrentTimestamp(now)])

\* DatabaseManager.get_notes: the notes of a folder (the unassigned notes
\* for a NULL or zero folder_id), ORDER BY title.
TitleRank(title) ==
    CASE title = "" -> 0
      [] title = "Alpha" -> 1
      [] title = "Todo" -> 2

RECURSIVE NotesByTitle(_)
NotesByTitle(S) ==
    IF S = {} THEN <<>>
    ELSE LET m == CHOOSE x \in S : \A y \in S \ {x} :
                     \/ TitleRank(notes[x].title) < TitleRank(notes[y].title)
                     \/ /\ TitleRank(notes[x].title) = TitleRank(notes[y].title)
                        /\ x < y
         IN <<m>> \o NotesByTitle(S \ {m})

GetNotes(folder_id) ==
    NotesByTitle({n \in DOMAIN notes : notes[n].folder_id = folder_id})

\* DatabaseManager._load_children: the node of folder f with its children
\* and its notes loaded, recursively.
RECURSIVE LoadChildren(_)
LoadChildren(f) ==
    LET children == GetFolders(f)
    IN [id |-> f,
        children |-> [i \in 1..Len(children) |-> LoadChildren(children[i])],
        notes |-> GetNotes(f)]

\* get_full_hierarchy loading the root folders a second time.
GetFullHierarchy_RootsTwice ==
    LET root_folders == GetFolders(NULL) \o GetFolders(NULL)
    IN [i \in 1..Len(root_folders) |-> LoadChildren(root_folders[i])]

\* DatabaseManager.get_full_hierarchy: the nodes of the root folders.
GetFullHierarchy ==
    LET root_folders == GetFolders(NULL)
    IN [i \in 1..Len(root_folders) |-> LoadChildren(root_folders[i])]

\* DatabaseManager.get_full_hierarchy called by a client: SELECTs only.
GetFullHierarchyCall ==
    /\ conn = "open"
    /\ Returned("getFullHierarchy", NULL, GetFullHierarchy)

\* DatabaseManager.get_note_parents.  The while loop follows parent_id and
\* stops at a folder without parent; it reads and never writes, so once it
\* comes to a folder it has visited it goes round for ever ("diverges").
RECURSIVE ParentsLoop(_, _)
ParentsLoop(folder_id, parents) ==
    IF folder_id = NULL THEN [status |-> "returns", parents |-> parents]
    ELSE IF \E i \in 1..Len(parents) : parents[i] = folder_id
    THEN [status |-> "diverges", parents |-> parents]
    ELSE IF GetFolder(folder_id) = None
    THEN [status |-> "AttributeError", parents |-> parents]
    ELSE ParentsLoop(GetFolder(folder_id)[1].parent_id, Append(parents, folder_id))

GetNoteParents(note_id) ==
    IF GetNote(note_id) = None
    THEN [status |-> "AttributeError", parents |-> <<>>]
    ELSE ParentsLoop(GetNote(note_id)[1].folder_id, <<>>)

\* DatabaseManager.get_note_parents called by a client, where the loop
\* comes to an end: with no row of that id get_note returns None and
\* note.folder_id raises AttributeError.
GetNoteParentsCall(note_id) ==
    /\ conn = "open"
    /\ GetNoteParents(note_id).status # "diverges"
    /\ IF GetNoteParents(note_id).status = "AttributeError"
       THEN Failed("getNoteParents", note_id, FALSE, "AttributeError")
       ELSE Returned("getNoteParents", note_id, GetNoteParents(note_id).parents)

\* DatabaseManager.delete_note
DeleteNote(id) ==
    /\ conn = "open"
    /\ IF id \notin DOMAIN notes
       THEN NoRows("deleteNote", id, FALSE)
       ELSE LET bad == Unindexed(triggers, "notes_ad", fts, {id})
            IN \E raises \in IF bad = {} THEN {FALSE} ELSE BOOLEAN :
                  IF raises
                  THEN Failed("deleteNote", id, FALSE, "malformed")
                  ELSE /\ notes' = [n \in DOMAIN notes \ {id} |-> notes[n]]
                       /\ fts' = notes_ad(triggers, fts, FtsEntry(id, notes[id]))
                       /\ ftsDamaged' = (ftsDamaged \/ bad # {})
                       /\ last' = Call("deleteNote", id, FALSE, "none")
                       /\ UNCHANGED <<conn, tables, triggers, folders,
                                      seqFolders, seqNotes, now, health, rules, window>>

(* ------------------------- search -------------------------------------- *)
\* A query string is a sequence of pieces: a run of whitespace, a reserved
\* character of the FTS5 query language, or a term (a maximal run of
\* letters, so two terms are never adjacent).
Terms == {"al", "beta"}
Pieces == {" ", "(", "*"} \cup Terms
Queries ==
    {q \in UNION {[1..n -> Pieces] : n \in 0..MaxQueryLen} :
        \A i \in 1..(Len(q) - 1) : ~(q[i] \in Terms /\ q[i + 1] \in Terms)}

\* The letters of the words that occur in notes and queries.
Letters(w) ==
    CASE w = "al" -> <<"a", "l">>
      [] w = "alpha" -> <<"a", "l", "p", "h", "a">>
      [] w = "beta" -> <<"b", "e", "t", "a">>
      [] w = "gamma" -> <<"g", "a", "m", "m", "a">>
      [] w = "todo" -> <<"t", "o", "d", "o">>

IsPrefix(p, w) ==
    /\ Len(Letters(p)) <= Len(Letters(w))
    /\ SubSeq(Letters(w), 1, Len(Letters(p))) = Letters(p)

\* The unicode61 tokenizer of FTS5 on the text of a column: its words, in
\* lower case.
Tokenize(text) ==
    CASE text = "" -> {}
      [] text = "Alpha" -> {"alpha"}
      [] text = "Todo" -> {"todo"}
      [] text = "beta" -> {"beta"}
      [] text = "gamma" -> {"gamma"}
      [] text = "beta gamma" -> {"beta", "gamma"}

\* str.strip(): leading and trailing whitespace removed.
RECURSIVE LStrip(_)
LStrip(q) == IF q # <<>> /\ Head(q) = " " THEN LStrip(Tail(q)) ELSE q

RECURSIVE RStrip(_)
RStrip(q) ==
    IF q # <<>> /\ q[Len(q)] = " " THEN RStrip(SubSeq(q, 1, Len(q) - 1)) ELSE q

\* str.strip() with nothing stripped.
Strip_Identity(q) == q

Strip(q) == RStrip(LStrip(q))

\* The parameter bound to MATCH: query + "*".
MatchExpr(query) == Append(query, "*")

\* The FTS5 query parser skips whitespace between tokens.
FtsTokens(expr) == SelectSeq(expr, LAMBDA p : p # " ")

\* FTS5 rejects the expression: a parenthesis that is never closed, or a
\* "*" that does not follow a term.
FtsSyntaxError(expr) ==
    LET toks == FtsTokens(expr)
    IN \E i \in 1..Len(toks) :
          \/ toks[i] = "("
          \/ toks[i] = "*" /\ (i = 1 \/ toks[i - 1] \notin Terms)

\* The phrases of an accepted expression: each term, marked as a prefix
\* when a "*" follows it.  Phrases written side by side are ANDed.
FtsPhrases(expr) ==
    LET toks == FtsTokens(expr)
    IN {[term |-> toks[i],
         prefix |-> (i < Len(toks) /\ toks[i + 1] = "*")] :
            i \in {j \in 1..Len(toks) : toks[j] \in Terms}}

\* A phrase matches an index entry when one of the words of its title or
\* content is the term, or starts with it for a prefix phrase.
PhraseMatches(ph, e) ==
    \E w \in Tokenize(e.title) \cup Tokenize(e.content) :
        \/ w = ph.term
        \/ ph.prefix /\ IsPrefix(ph.term, w)

\* The rows of notes_fts that MATCH the expression, joined with notes on
\* rowid.
FtsMatch(expr) ==
    {e.rowid : e \in {x \in fts : \A ph \in FtsPhrases(expr) : PhraseMatches(ph, x)}}
        \cap DOMAIN notes

\* The number of words the index holds for a row.
DocLength(e) == Cardinality(Tokenize(e.title)) + Cardinality(Tokenize(e.content))

\* The rank column of notes_fts: bm25, negated by FTS5 so that a better
\* match has a lower value, kept here up to a monotone map.  In the texts
\* of this model a word occurs once in a note, so among the rows matching
\* one expression the score depends on the length of the row only: the
\* shorter the row, the better the match.  No row has 5 words, so the rank
\* is negative, as bm25 in FTS5 is.
Bm25Rank(expr, id) ==
    LET e == CHOOSE x \in fts :
                 /\ x.rowid = id
                 /\ \A ph \in FtsPhrases(expr) : PhraseMatches(ph, x)
    IN DocLength(e) - 5

\* ORDER BY rank: ascending; rows of equal rank come out in rowid order.
RECURSIVE OrderByRank(_, _)
OrderByRank(expr, ids) ==
    IF ids = {} THEN <<>>
    ELSE LET first == CHOOSE a \in ids : \A b \in ids \ {a} :
                          \/ Bm25Rank(expr, a) < Bm25Rank(expr, b)
                          \/ Bm25Rank(expr, a) = Bm25Rank(expr, b) /\ a < b
         IN <<[note |-> first, rank |-> Bm25Rank(expr, first)]>>
                \o OrderByRank(expr, ids \ {first})

\* SearchResult.__lt__(self, other)
SearchResultLt(self, other) == self.rank > other.rank

\* DatabaseManager.search_notes; ret is the result list, one SearchResult
\* [note, rank] per row, note being the id of the note.  The method has no
\* try/except: an error of the engine reaches the caller.  On a damaged
\* index the SELECT either answers, or raises DatabaseError, or yields a
\* NULL rank on which float() raises TypeError.
Search(query) ==
    /\ conn = "open"
    /\ IF Strip(query) = <<>>
       THEN Returned("search", NULL, <<>>)
       ELSE IF FtsSyntaxError(MatchExpr(query))
       THEN Failed("search", NULL, FALSE, "syntax")
       ELSE \E outcome \in IF ftsDamaged THEN {"none", "malformed", "TypeError"}
                                         ELSE {"none"} :
               IF outcome = "none"
               THEN Returned("search", NULL,
                             OrderByRank(MatchExpr(query),
                                         FtsMatch(MatchExpr(query))))
               ELSE Failed("search", NULL, FALSE, outcome)

(* ------------------------- open / close -------------------------------- *)
\* The script of init_schema run on the file.  executescript runs the
\* statements one by one in autocommit, so what ran before a failing
\* statement stays.
RunInitSchema(op) ==
    LET s == InitSchemaScript(SchemaState)
    IN /\ tables' = s.tables
       /\ triggers' = s.triggers
       /\ rules' = s.rules
       /\ fts' = s.fts
       /\ ftsDamaged' = s.damaged
       /\ last' = Call(op, NULL, FALSE, IF s.err THEN "exists" ELSE "none")
       /\ UNCHANGED <<folders, notes, seqFolders, seqNotes, now, health, window>>

\* DatabaseManager.init_schema called again on the open store.
InitSchema ==
    /\ conn = "open"
    /\ RunInitSchema("initSchema")
    /\ UNCHANGED conn

\* DatabaseManager.close
Close ==
    /\ conn = "open"
    /\ conn' = "closed"
    /\ last' = Call("close", NULL, FALSE, "none")
    /\ UNCHANGED <<store, now, window>>

\* DatabaseManager.integrity_check: PRAGMA integrity_check is executed and
\* the rows it returns are never read, so the method returns False only
\* when the statement itself raises.
IntegrityCheck(h) == h # "malformed"

\* DatabaseManager.connect: what it raises ("none": it returns).  PRAGMA
\* journal_mode = WAL is the first statement that reads the file and
\* already raises DatabaseError on a file SQLite cannot read.
Connect(h) ==
    IF h = "malformed" THEN "malformed"
    ELSE IF ~IntegrityCheck(h) THEN "corrupted"
    ELSE "none"

\* DatabaseManager.__init__ on the path of the closed store: connect (with
\* the integrity check), then init_schema.
Open ==
    /\ conn = "closed"
    /\ IF Connect(health) # "none"
       THEN Failed("open", NULL, FALSE, Connect(health))
       ELSE /\ conn' = "open"
            /\ RunInitSchema("open")

\* The file is damaged on disk while no manager has it open: afterwards
\* PRAGMA integrity_check reports problems ("problem"), or SQLite cannot
\* read the file at all ("malformed").
Damage ==
    /\ conn = "closed"
    /\ health = "ok"
    /\ \E h \in {"problem", "malformed"} : health' = h
    /\ UNCHANGED <<conn, tables, triggers, folders, notes, fts, ftsDamaged,
                   seqFolders, seqNotes, now, last, rules, window>>

\* Time passes between two calls.
Tick ==
    /\ now < MaxClock
    /\ now' = now + 1
    /\ UNCHANGED <<conn, store, last, window>>

(* ------------------------- application startup ------------------------- *)
\* main.create_sample_data run on the open store whose schema state is s
\* (what init_schema has just left): the rows after it, or "raised" when a
\* statement outside its try block raises.  DELETE FROM notes runs the
\* notes_ad trigger for every note; on notes the index does not hold the
\* statement raises (caught: nothing is cleared) or goes through and
\* leaves the index damaged.  Then two root folders are created, each with
\* one note.
SampleData(s, clearRaises) ==
    LET bad == Unindexed(s.triggers, "notes_ad", s.fts, DOMAIN notes)
        raised == bad # {} /\ clearRaises
        f0 == IF raised THEN folders ELSE [f \in {} |-> NULL]
        n0 == IF raised THEN notes ELSE [n \in {} |-> NULL]
        x0 == IF raised THEN s.fts ELSE {}
        ts == CurrentTimestamp(now)
        projects_id == seqFolders + 1
        docs_id == seqFolders + 2
        folder(name) == [name |-> name, parent_id |-> NULL,
                         created_at |-> ts, updated_at |-> ts]
        note(title, content, folder_id) ==
            [title |-> title, content |-> content, folder_id |-> folder_id,
             created_at |-> ts, updated_at |-> ts]
        n1 == note("My First Project", "Project Notes", projects_id)
        n2 == note("Getting Started", "Welcome", docs_id)
    IN [folders |-> [f \in DOMAIN f0 \cup {projects_id, docs_id} |->
                        IF f = projects_id THEN folder("Projects")
                        ELSE IF f = docs_id THEN folder("Docs")
                        ELSE f0[f]],
        notes |-> [n \in DOMAIN n0 \cup {seqNotes + 1, seqNotes + 2} |->
                      IF n = seqNotes + 1 THEN n1
                      ELSE IF n = seqNotes + 2 THEN n2
                      ELSE n0[n]],
        fts |-> notes_ai(s.triggers,
                         notes_ai(s.triggers, x0, FtsEntry(seqNotes + 1, n1)),
                         FtsEntry(seqNotes + 2, n2)),
        damaged |-> (s.damaged \/ (bad # {} /\ ~raised))]

\* What main() does with the store when the application starts: the
\* module-level DatabaseManager() (connect with the integrity check, then
\* init_schema), safe_reset_database, and create_sample_data when that
\* returned True.  safe_reset_database returns True when get_folders
\* raised nothing ("Database healthy"); otherwise it closes the manager,
\* removes the directory of the store, opens a manager on a new file and
\* returns False.  last.ret holds was_reset.  On a file with problems
\* get_folders raises or not, depending on where the damage is.
Startup ==
    /\ conn = "closed"
    /\ IF Connect(health) # "none"
       THEN Failed("startup", NULL, FALSE, Connect(health))
       ELSE LET s == InitSchemaScript(SchemaState)
            IN \E healthy \in IF health = "ok" THEN {TRUE} ELSE BOOLEAN,
                  clearRaises \in BOOLEAN :
                  IF healthy
                  THEN /\ seqFolders + 2 <= MaxFolders
                       /\ seqNotes + 2 <= MaxNotes
                       /\ LET d == SampleData(s, clearRaises)
                          IN /\ folders' = d.folders
                             /\ notes' = d.notes
                             /\ fts' = d.fts
                             /\ ftsDamaged' = d.damaged
                       /\ seqFolders' = seqFolders + 2
                       /\ seqNotes' = seqNotes + 2
                       /\ tables' = s.tables
                       /\ triggers' = s.triggers
                       /\ rules' = s.rules
                       /\ conn' = "open"
                       /\ last' = [Call("startup", NULL, FALSE, "none")
                                     EXCEPT !.ret = Some(TRUE)]
                       /\ UNCHANGED <<now, health, window>>
                  ELSE /\ tables' = InitSchemaScript(EmptyFile).tables
                       /\ triggers' = InitSchemaScript(EmptyFile).triggers
                       /\ rules' = InitSchemaScript(EmptyFile).rules
                       /\ folders' = [f \in {} |-> NULL]
                       /\ notes' = [n \in {} |-> NULL]
                       /\ fts' = {}
                       /\ ftsDamaged' = FALSE
                       /\ seqFolders' = 0
                       /\ seqNotes' = 0
                       /\ health' = "ok"
                       /\ conn' = "open"
                       /\ last' = [Call("startup", NULL, FALSE, "none")
                                     EXCEPT !.ret = Some(FALSE)]
                       /\ UNCHANGED <<now, window>>

(* ------------------------- main window --------------------------------- *)
\* The handlers of MainWindow, with db_manager the DatabaseManager of the
\* store.  window.current_note is the Note object that load_note got from
\* get_note: a copy of the row as it was then.  Of its fields update_note
\* reads id, title, folder_id and content, and save_current_note overwrites
\* content with the editor text before every call, so the copy is kept as
\* [id, title, folder_id].

\* MainWindow.on_item_clicked on a note item: load_note.  Whether
\* QTextEdit.setText leaves the document modified is Qt's business: either.
LoadNote(note_id) ==
    /\ conn = "open"
    /\ IF GetNote(note_id) = None
       THEN NoRows("loadNote", note_id, FALSE)
       ELSE /\ \E m \in BOOLEAN :
                 window' = [current_note |->
                               Some([id |-> note_id,
                                     title |-> notes[note_id].title,
                                     folder_id |-> notes[note_id].folder_id]),
                            editor |-> notes[note_id].content,
                            modified |-> m]
            /\ last' = Call("loadNote", note_id, FALSE, "none")
            /\ UNCHANGED <<conn, store, now>>

\* The user types in the editor: the text changes and the document is
\* modified (on_editor_changed only sets the status label).
EditText(text) ==
    /\ window' = [window EXCEPT !.editor = text, !.modified = TRUE]
    /\ last' = Call("editText", NULL, FALSE, "none")
    /\ UNCHANGED <<conn, store, now>>

\* MainWindow.save_current_note, reached as op: the Save button ("save"),
\* the auto-save timer ("autoSave") or closeEvent ("closeEvent").  It
\* writes the held copy, with the editor text as content, through
\* update_note.
SaveCurrentNote(op) ==
    /\ conn = "open"
    /\ IF window.current_note = None
       THEN NoRows(op, NULL, FALSE)
       ELSE LET cur == window.current_note[1]
            IN IF cur.id \notin DOMAIN notes
               THEN NoRows(op, cur.id, FALSE)
               ELSE UpdateNoteRow(op, cur.id,
                        [notes[cur.id] EXCEPT !.title = cur.title,
                                              !.content = window.editor,
                                              !.folder_id = cur.folder_id,
                                              !.updated_at = CurrentTimestamp(now)])

\* MainWindow.auto_save: the timer tick saves a modified document.
AutoSave ==
    IF window.current_note # None /\ window.modified
    THEN SaveCurrentNote("autoSave")
    ELSE conn = "open" /\ NoRows("autoSave", NULL, FALSE)

\* MainWindow.closeEvent
CloseEvent == SaveCurrentNote("closeEvent")

\* MainWindow.on_item_renamed on a note item; title is the item text with
\* the icon prefix removed.  get_note, then update_note of the fresh copy
\* with the new title; an exception ends in a message box.
OnNoteRenamed(note_id, title) ==
    /\ conn = "open"
    /\ title # ""
    /\ IF GetNote(note_id) = None
       THEN NoRows("renameNote", note_id, FALSE)
       ELSE UpdateNoteRow("renameNote", note_id,
                [notes[note_id] EXCEPT !.title = title,
                                       !.updated_at = CurrentTimestamp(now)])

\* MainWindow.on_item_renamed on a folder item: get_folder, the new name
\* set on the copy, then create_folder(folder), which INSERTs a row with
\* the name and the parent_id of the copy.
OnFolderRenamed(folder_id, name) ==
    /\ conn = "open"
    /\ name # ""
    /\ IF GetFolder(folder_id) = None
       THEN NoRows("renameFolder", folder_id, FALSE)
       ELSE CreateFolder(name, folders[folder_id].parent_id)

(* ------------------------- specifications ------------------------------ *)
\* The calls a client makes, with their arguments drawn from small sets.
DoCreateFolder == \E name \in Names, parent \in Refs : CreateFolder(name, parent)
DoMoveFolder == \E id \in FolderIds, target \in Refs : MoveFolder(id, target)
DoDeleteFolder == \E id \in FolderIds, recursive \in BOOLEAN :
                     DeleteFolder(id, recursive)

\* Folder-tree operations only.
NextFolders ==
    \/ DoCreateFolder
    \/ DoMoveFolder
    \/ DoDeleteFolder

SpecFolders == Init /\ [][NextFolders]_vars

\* Calls on notes, over at most MaxNoteFolders folders.
NCreateFolder == \E parent \in NoteRefs :
                    seqFolders < MaxNoteFolders /\ CreateFolder("Projects", parent)
NDeleteFolder == \E id \in NoteFolderIds, recursive \in BOOLEAN :
                    DeleteFolder(id, recursive)
DoCreateNote == \E title \in Titles, content \in Contents, folder \in NoteRefs :
                   CreateNote(title, content, folder)
DoUpdateNote == \E id \in NoteIds, title \in Titles, content \in Contents,
                   folder \in NoteRefs :
                   UpdateNote(id, title, content, folder)
DoMoveNote == \E id \in NoteIds, target \in NoteRefs : MoveNote(id, target)
DoDeleteNote == \E id \in NoteIds : DeleteNote(id)

\* One session on a new store: notes and the folders they are in.
NextNotes ==
    \/ NCreateFolder
    \/ NDeleteFolder
    \/ DoCreateNote
    \/ DoUpdateNote
    \/ DoMoveNote
    \/ DoDeleteNote

SpecNotes == Init /\ [][NextNotes]_vars

\* The life of the first note of a store as time passes between the calls.
TCreateNote == \E title \in Titles, content \in Contents, folder \in NoteRefs :
                  seqNotes = 0 /\ CreateNote(title, content, folder)
TUpdateNote == \E title \in Titles, content \in Contents, folder \in NoteRefs :
                  UpdateNote(1, title, content, folder)
TMoveNote == \E target \in NoteRefs : MoveNote(1, target)
TDeleteNote == DeleteNote(1)

NextClock ==
    \/ NCreateFolder
    \/ NDeleteFolder
    \/ TCreateNote
    \/ TUpdateNote
    \/ TMoveNote
    \/ TDeleteNote
    \/ Tick

SpecClock == Init /\ [][NextClock]_vars

\* The store over several sessions: closed, opened again, and init_schema
\* run again.
NextReopen ==
    \/ NCreateFolder
    \/ NDeleteFolder
    \/ DoCreateNote
    \/ DoDeleteNote
    \/ InitSchema
    \/ Close
    \/ Open

SpecReopen == Init /\ [][NextReopen]_vars

\* A store filled at time 0, whose notes are then moved between folders as
\* time passes, over several sessions.
MCreateFolder == now = 0 /\ NCreateFolder
MCreateNote == \E folder \in NoteRefs :
                  now = 0 /\ CreateNote("Alpha", "beta", folder)

NextMove ==
    \/ MCreateFolder
    \/ MCreateNote
    \/ DoMoveNote
    \/ Tick
    \/ Close
    \/ Open

SpecMove == Init /\ [][NextMove]_vars

\* Lookups by id, of rows that exist and of rows that do not.
DoGetFolder == \E id \in FolderIds : GetFolderCall(id)
DoGetNote == \E id \in NoteIds : GetNoteCall(id)

NextLookup ==
    \/ NCreateFolder
    \/ NDeleteFolder
    \/ DoCreateNote
    \/ DoDeleteNote
    \/ DoGetFolder
    \/ DoGetNote
    \/ Close
    \/ Open

SpecLookup == Init /\ [][NextLookup]_vars

\* Searches over unassigned notes, over several sessions.
SCreateNote == \E title \in Titles, content \in Contents :
                  CreateNote(title, content, NULL)
SUpdateNote == \E id \in NoteIds, content \in Contents :
                  id \in DOMAIN notes
                  /\ UpdateNote(id, notes[id].title, content, NULL)
DoSearch == \E query \in Queries : Search(query)

NextSearch ==
    \/ SCreateNote
    \/ SUpdateNote
    \/ DoDeleteNote
    \/ DoSearch
    \/ Close
    \/ Open

SpecSearch == Init /\ [][NextSearch]_vars

\* A folder tree that is rearranged while its folders hold notes.
TreeCreateFolder == \E name \in Names \ {""}, parent \in Refs :
                       CreateFolder(name, parent)
TreeCreateNote == \E folder \in Refs : CreateNote("Alpha", "beta", folder)
TreeMoveNote == \E id \in NoteIds, target \in Refs : MoveNote(id, target)

NextTree ==
    \/ TreeCreateFolder
    \/ DoMoveFolder
    \/ DoDeleteFolder
    \/ TreeCreateNote
    \/ TreeMoveNote

SpecTree == Init /\ [][NextTree]_vars

\* A store that is damaged on disk between two sessions.  What a call
\* does on a damaged file is not modelled: clients call only a healthy one.
HCreateNote == health = "ok" /\ DoCreateNote
HDeleteNote == health = "ok" /\ DoDeleteNote

NextIntegrity ==
    \/ HCreateNote
    \/ HDeleteNote
    \/ Close
    \/ Damage
    \/ Open

SpecIntegrity == Init /\ [][NextIntegrity]_vars

\* A store created by the earlier schema version, then opened and used
\* through DatabaseManager.
LCreateNote == \E title \in Titles, folder \in NoteRefs :
                  CreateNote(title, "beta", folder)

NextLegacy ==
    \/ Open
    \/ DoCreateFolder
    \/ LCreateNote
    \/ Close

SpecLegacy == InitLegacy /\ [][NextLegacy]_vars

\* Folders and notes whose references are drawn from every folder id,
\* existing or not.
RCreateFolder == /\ seqFolders < MaxRefFolders
                 /\ \E parent \in Refs : CreateFolder("Projects", parent)
RCreateNote == /\ seqNotes < MaxRefNotes
               /\ \E folder \in Refs : CreateNote("Alpha", "beta", folder)
RUpdateNote == \E id \in NoteIds, folder \in Refs :
                  UpdateNote(id, "Alpha", "gamma", folder)
RMoveNote == \E id \in NoteIds, target \in Refs : MoveNote(id, target)

NextRefs ==
    \/ RCreateFolder
    \/ DoMoveFolder
    \/ DoDeleteFolder
    \/ RCreateNote
    \/ RUpdateNote
    \/ RMoveNote
    \/ DoDeleteNote

SpecRefs == Init /\ [][NextRefs]_vars

\* Folder trees, cycles included, and the hierarchy built from them.
NextHierarchy ==
    \/ TreeCreateFolder
    \/ DoMoveFolder
    \/ DoDeleteFolder
    \/ GetFullHierarchyCall

SpecHierarchy == Init /\ [][NextHierarchy]_vars

\* One session of the main window: notes and folders exist, a note is
\* opened, edited, saved, renamed and deleted through the window.
WCreateNote == \E title \in Titles \ {""} : CreateNote(title, "beta", NULL)
DoLoadNote == \E id \in NoteIds : LoadNote(id)
DoEditText == \E text \in Contents : EditText(text)
DoSave == SaveCurrentNote("save")
DoRenameNote == \E id \in NoteIds, title \in Titles : OnNoteRenamed(id, title)
DoRenameFolder == \E id \in FolderIds, name \in Names : OnFolderRenamed(id, name)

NextWindow ==
    \/ NCreateFolder
    \/ WCreateNote
    \/ DoLoadNote
    \/ DoEditText
    \/ DoSave
    \/ AutoSave
    \/ CloseEvent
    \/ DoRenameNote
    \/ DoRenameFolder
    \/ DoDeleteNote

SpecWindow == Init /\ [][NextWindow]_vars

\* Sessions of the application: it starts on the store of the session
\* before, the user creates folders, it exits; the file may be damaged
\* between two sessions.
UCreateFolder == /\ seqFolders < MaxNoteFolders
                 /\ \E name \in Names \ {""} : CreateFolder(name, NULL)

NextStartup ==
    \/ Startup
    \/ UCreateFolder
    \/ Tick
    \/ Close
    \/ Damage

SpecStartup == Init /\ [][NextStartup]_vars

\* Rows created and deleted again and again, over several sessions.
IdCreateFolder == CreateFolder("Projects", NULL)
IdDeleteFolder == \E id \in FolderIds : DeleteFolder(id, FALSE)
IdCreateNote == \E title \in Titles \ {""} : CreateNote(title, "beta", NULL)

NextIds ==
    \/ IdCreateFolder
    \/ IdDeleteFolder
    \/ IdCreateNote
    \/ DoDeleteNote
    \/ Close
    \/ Open

SpecIds == Init /\ [][NextIds]_vars

\* Notes in a tree of folders, and the parent chain of every note id.
DoGetNoteParents == \E id \in NoteIds : GetNoteParentsCall(id)

NextParents ==
    \/ TreeCreateFolder
    \/ TreeCreateNote
    \/ DoDeleteNote
    \/ DoGetNoteParents

SpecParents == Init /\ [][NextParents]_vars

\* Searches over notes of different lengths.
KCreateNote == \E title \in Titles \ {""}, content \in {"beta", "beta gamma"} :
                  CreateNote(title, content, NULL)
KSearch == \E query \in {<<"al">>, <<"beta">>, <<"al", " ", "beta">>} :
              Search(query)

NextRank ==
    \/ KCreateNote
    \/ DoDeleteNote
    \/ KSearch

SpecRank == Init /\ [][NextRank]_vars

\* Notes updated and moved by id, whether the id is that of a note or not.
XCreateNote == \E title \in Titles \ {""} : CreateNote(title, "beta", NULL)
XUpdateNote == \E id \in NoteIds, title \in Titles \ {""}, content \in Contents :
                  UpdateNote(id, title, content, NULL)
XMoveNote == \E id \in NoteIds, target \in NoteRefs : MoveNote(id, target)

NextMissing ==
    \/ XCreateNote
    \/ XUpdateNote
    \/ XMoveNote
    \/ DoDeleteNote

SpecMissing == Init /\ [][NextMissing]_vars

(* ------------------------- properties ---------------------------------- *)
\* The index entry of every existing note.
IndexOfNotes == {FtsEntry(n, notes[n]) : n \in DOMAIN notes}

\* The folders above f, f included, following parent_id.
RECURSIVE Up(_, _)
Up(f, seen) ==
    IF f = NULL \/ f \in seen \/ f \notin DOMAIN folders THEN seen
    ELSE Up(folders[f].parent_id, seen \cup {f})

\* Folder id and its descendants at any depth.
Subtree(id) == {f \in DOMAIN folders : id \in Up(f, {})}

\* C1: within one session (no reopen), after any sequence of createNote,
\* updateNote, moveNote, deleteNote and deleteFolder, the search index holds
\* exactly one entry per existing note, with that note's rowid and its
\* current title and content, and no entry for a deleted note.
C1_IndexMirrorsNotes == fts = IndexOfNotes

\* A note has been updated after another note was deleted.
C1_Witness ==
    /\ last.op = "updateNote" /\ last.err = "none"
    /\ last.id \in DOMAIN notes
    /\ Cardinality(DOMAIN notes) < seqNotes

\* C2: after close and open (connect + init_schema) of a store that holds
\* notes, every note still has its search index entry (so a prefix search
\* still returns it).
C2_ReopenKeepsIndex == last.op = "open" => IndexOfNotes \subseteq fts

\* C3: a second init_schema on an initialised store raises nothing and
\* changes no structure: the same rows of folders and notes, the folders,
\* notes and search index tables, and exactly the three triggers.
C3_InitSchemaIdempotent ==
    [][InitSchema =>
          /\ last'.err = "none"
          /\ folders' = folders /\ notes' = notes
          /\ tables' = tables /\ tables' = AllTables
          /\ triggers' = triggers /\ triggers' = AllTriggers
          /\ Cardinality(triggers') = 3]_vars

\* init_schema has run again on a store that holds a folder and a note.
C3_Witness ==
    /\ last.op = "initSchema" /\ last.err = "none"
    /\ DOMAIN folders # {} /\ DOMAIN notes # {}

\* C4: no two distinct folders have the same name and the same parent,
\* two root folders counting as having the same parent.
C4_SiblingNamesUnique ==
    \A f, g \in DOMAIN folders :
        f # g => ~(/\ folders[f].name = folders[g].name
                   /\ folders[f].parent_id = folders[g].parent_id)

\* C5: createFolder(name, P) with P an existing folder that already has a
\* child named name, or with name empty (under any parent), fails with a
\* constraint error and leaves the folders and the notes unchanged.
C5_CreateFolderRejects ==
    [][\A name \in Names, P \in Refs :
          (/\ last'.op = "createFolder"
           /\ \/ name = ""
              \/ /\ P \in DOMAIN folders
                 /\ \E f \in DOMAIN folders :
                       folders[f].parent_id = P /\ folders[f].name = name
           /\ CreateFolder(name, P))
          => /\ last'.err \in {"CHECK", "UNIQUE"}
             /\ folders' = folders /\ notes' = notes]_vars

\* createFolder has been refused for a name a sibling already has.
C5_Witness ==
    /\ last.op = "createFolder" /\ last.err = "UNIQUE"
    /\ \E f \in DOMAIN folders : folders[f].parent_id \in DOMAIN folders

\* C6: no two distinct notes have the same title and the same folder, two
\* unassigned notes counting as having the same folder.
C6_NoteTitlesUnique ==
    \A m, n \in DOMAIN notes :
        m # n => ~(/\ notes[m].title = notes[n].title
                   /\ notes[m].folder_id = notes[n].folder_id)

\* C7: createNote(title, content, F) with F an existing folder that already
\* holds a note of that title, or with title empty (in any folder), fails
\* with a constraint error and leaves the notes, the folders and the index
\* unchanged.
C7_CreateNoteRejects ==
    [][\A title \in Titles, content \in Contents, F \in NoteRefs :
          (/\ last'.op = "createNote"
           /\ \/ title = ""
              \/ /\ F \in DOMAIN folders
                 /\ \E n \in DOMAIN notes :
                       notes[n].folder_id = F /\ notes[n].title = title
           /\ CreateNote(title, content, F))
          => /\ last'.err \in {"CHECK", "UNIQUE"}
             /\ notes' = notes /\ folders' = folders /\ fts' = fts]_vars

\* createNote has been refused for a title the folder already holds.
C7_Witness ==
    /\ last.op = "createNote" /\ last.err = "UNIQUE"
    /\ \E n \in DOMAIN notes : notes[n].folder_id \in DOMAIN folders

\* What get_note(id) returned, against the values that were written.
Returns(got, id, title, content, folder) ==
    /\ got # None
    /\ got[1].id = id /\ got[1].title = title
    /\ got[1].content = content /\ got[1].folder_id = folder

\* C8: getNote right after a successful createNote returns the title,
\* content and folder that were passed; getNote right after a successful
\* updateNote of an existing note returns the title, content and folder
\* written, with a last-modified time not before the one it had.
C8_RoundTrip ==
    [][\A title \in Titles, content \in Contents, folder \in NoteRefs :
          /\ \A id \in NoteIds :
                (/\ last'.op = "createNote"
                 /\ last'.err = "none" /\ last'.id = id
                 /\ CreateNote(title, content, folder))
                => Returns(GetNote(id)', id, title, content, folder)
          /\ \A id \in DOMAIN notes :
                (/\ last'.op = "updateNote"
                 /\ last'.err = "none" /\ last'.id = id
                 /\ UpdateNote(id, title, content, folder))
                => /\ Returns(GetNote(id)', id, title, content, folder)
                   /\ GetNote(id)'[1].updated_at >= GetNote(id)[1].updated_at
                   /\ GetNote(id)'[1].created_at = GetNote(id)[1].created_at]_vars

\* A note has been updated at a later time than it was created, to a
\* different folder.
C8_Witness ==
    /\ last.op = "updateNote" /\ last.err = "none"
    /\ last.id \in DOMAIN notes
    /\ FromIsoFormat(notes[last.id].updated_at)
          > FromIsoFormat(notes[last.id].created_at)
    /\ notes[last.id].folder_id # NULL

\* C9: deleteFolder(id, recursive=true) removes folder id and all its
\* descendants and no other folder; no note is deleted; every note keeps
\* its title and content, and a note of a removed folder becomes unassigned.
C9_RecursiveDelete ==
    [][\A id \in FolderIds :
          (/\ last'.op = "deleteFolder" /\ last'.recursive /\ last'.id = id
           /\ id \in DOMAIN folders
           /\ DeleteFolder(id, TRUE))
          => /\ DOMAIN folders' = DOMAIN folders \ Subtree(id)
             /\ DOMAIN notes' = DOMAIN notes
             /\ \A n \in DOMAIN notes :
                   /\ notes'[n].title = notes[n].title
                   /\ notes'[n].content = notes[n].content
                   /\ notes'[n].folder_id =
                         IF notes[n].folder_id \in Subtree(id) THEN NULL
                         ELSE notes[n].folder_id]_vars

\* C10: deleteFolder(id, recursive=false) removes only the row of folder
\* id: every other folder, its children included, still exists afterwards.
C10_PlainDeleteKeepsChildren ==
    [][\A id \in FolderIds :
          (/\ last'.op = "deleteFolder" /\ ~last'.recursive /\ last'.id = id
           /\ DeleteFolder(id, FALSE))
          => DOMAIN folders \ {id} \subseteq DOMAIN folders']_vars

\* C11: moveNote(id, target) on an existing note, with target absent or an
\* existing folder holding no note of the same title, changes only that
\* note's folder reference (to target, when the call returns) and its
\* last-modified time, which does not go backwards: its title, content and
\* creation time, every other note, every folder and the text of the index
\* entries are unchanged.
C11_MoveNoteFrame ==
    [][\A id \in NoteIds, target \in NoteRefs :
          (/\ last'.op = "moveNote" /\ last'.id = id
           /\ id \in DOMAIN notes
           /\ target = NULL \/ target \in DOMAIN folders
           /\ ~\E n \in DOMAIN notes \ {id} :
                 notes[n].folder_id = target /\ notes[n].title = notes[id].title
           /\ MoveNote(id, target))
          => /\ DOMAIN notes' = DOMAIN notes
             /\ last'.err = "none" => notes'[id].folder_id = target
             /\ notes'[id].title = notes[id].title
             /\ notes'[id].content = notes[id].content
             /\ notes'[id].created_at = notes[id].created_at
             /\ FromIsoFormat(notes'[id].updated_at)
                   >= FromIsoFormat(notes[id].updated_at)
             /\ \A n \in DOMAIN notes \ {id} : notes'[n] = notes[n]
             /\ folders' = folders
             /\ {e \in fts' : e.rowid # id} = {e \in fts : e.rowid # id}
             /\ \A e \in fts' : e.rowid = id =>
                   /\ e.title = notes[id].title
                   /\ e.content = notes[id].content
             /\ ~ftsDamaged' => fts' = fts]_vars

\* A note has been moved into a folder at a later time than it was
\* created, while another note exists.
C11_Witness ==
    /\ last.op = "moveNote" /\ last.err = "none"
    /\ last.id \in DOMAIN notes
    /\ notes[last.id].folder_id # NULL
    /\ FromIsoFormat(notes[last.id].updated_at)
          > FromIsoFormat(notes[last.id].created_at)
    /\ DOMAIN notes \ {last.id} # {}

\* C12: getFolder(id) and getNote(id) for an id that does not exist (never
\* created, or deleted) return None, raise nothing and leave the store
\* unchanged.
C12_AbsentIsNone ==
    [][/\ \A id \in FolderIds :
             (/\ last'.op = "getFolder" /\ last'.id = id
              /\ id \notin DOMAIN folders
              /\ GetFolderCall(id))
             => last'.ret = None /\ last'.err = "none" /\ UNCHANGED store
       /\ \A id \in NoteIds :
             (/\ last'.op = "getNote" /\ last'.id = id
              /\ id \notin DOMAIN notes
              /\ GetNoteCall(id))
             => last'.ret = None /\ last'.err = "none" /\ UNCHANGED store]_vars

\* getNote has been called on the id of a deleted note while other notes
\* exist.
C12_Witness ==
    /\ last.op = "getNote"
    /\ last.id \notin DOMAIN notes /\ last.id <= seqNotes
    /\ DOMAIN notes # {}

\* The queries that are empty or hold whitespace only.
BlankQueries == UNION {[1..n -> {" "}] : n \in 0..MaxQueryLen}

\* C13: search with an empty or whitespace-only query returns an empty
\* result without raising and without touching the index, whatever state
\* the store and its index are in.
C13_EmptyQuery ==
    [][\A query \in BlankQueries :
          (last'.op = "search" /\ Search(query))
          => last'.err = "none" /\ last'.ret = <<>> /\ UNCHANGED store]_vars

\* An empty search has been answered on a store whose index is damaged.
C13_Witness ==
    /\ last.op = "search" /\ last.err = "none" /\ last.ret = <<>>
    /\ ftsDamaged /\ DOMAIN notes # {}

\* C14: search with a non-empty query that the index engine rejects as a
\* syntax error returns an empty result and raises nothing.
C14_SyntaxErrorSwallowed ==
    [][\A query \in Queries :
          (/\ last'.op = "search"
           /\ Strip(query) # <<>>
           /\ FtsSyntaxError(MatchExpr(query))
           /\ Search(query))
          => last'.err = "none" /\ last'.ret = <<>>]_vars

\* The notes a query selects when every one of its terms is a prefix of
\* some word of the title or the content.
PrefixMatches(query) ==
    {n \in DOMAIN notes :
        \A i \in 1..Len(query) :
            query[i] \in Terms =>
               \E w \in Tokenize(notes[n].title) \cup Tokenize(notes[n].content) :
                   IsPrefix(query[i], w)}

\* C15: for a query of one or more terms, every term is taken as a prefix:
\* on an index that mirrors the notes, search returns exactly the notes in
\* which each term of the query is a prefix of some word of the title or
\* the content.
C15_EveryTermIsPrefix ==
    [][\A query \in Queries :
          (/\ last'.op = "search"
           /\ \A i \in 1..Len(query) : query[i] \in Terms \cup {" "}
           /\ Strip(query) # <<>>
           /\ fts = IndexOfNotes /\ ~ftsDamaged
           /\ Search(query))
          => /\ last'.err = "none"
             /\ {last'.ret[i].note : i \in DOMAIN last'.ret}
                   = PrefixMatches(query)]_vars

\* The nodes of a sequence of trees, parents before children.
RECURSIVE Flatten(_)
Flatten(nodes) ==
    IF nodes = <<>> THEN <<>>
    ELSE <<Head(nodes)>> \o Flatten(Head(nodes).children) \o Flatten(Tail(nodes))

\* The folders under whose node note n is listed in the hierarchy, one
\* element per occurrence.
Occurrences(n) ==
    LET flat == Flatten(GetFullHierarchy)
    IN {<<i, j>> \in (1..Len(flat)) \X (1..MaxNotes) :
           j <= Len(flat[i].notes) /\ flat[i].notes[j] = n}

\* C16: buildHierarchy on an empty store returns an empty sequence; each
\* existing note appears at most once in the tree, a note with a folder
\* reference exactly once and under the node of that folder, and a note
\* that appears under no node is unassigned.
C16_HierarchyHoldsEveryNote ==
    /\ (DOMAIN folders = {} /\ DOMAIN notes = {}) => GetFullHierarchy = <<>>
    /\ \A n \in DOMAIN notes :
          /\ Cardinality(Occurrences(n)) <= 1
          /\ notes[n].folder_id # NULL =>
                /\ Cardinality(Occurrences(n)) = 1
                /\ \A o \in Occurrences(n) :
                      Flatten(GetFullHierarchy)[o[1]].id = notes[n].folder_id
          /\ Occurrences(n) = {} => notes[n].folder_id = NULL

\* C17: in every reachable state parentChain of an existing note
\* terminates and returns the note's folder followed by each successive
\* ancestor, ending at a folder without parent (the empty sequence for an
\* unassigned note).
C17_ParentChainTerminates ==
    \A n \in DOMAIN notes :
        LET r == GetNoteParents(n)
            ps == r.parents
        IN /\ r.status = "returns"
           /\ notes[n].folder_id = NULL => ps = <<>>
           /\ notes[n].folder_id # NULL =>
                 /\ ps # <<>> /\ ps[1] = notes[n].folder_id
                 /\ \A i \in 1..(Len(ps) - 1) : ps[i + 1] = folders[ps[i]].parent_id
                 /\ folders[ps[Len(ps)]].parent_id = NULL

\* C18: opening a store whose integrity check reports a problem (any
\* result other than ok) fails with a corruption error before the schema
\* is touched; open completes only on a store the check reports healthy.
C18_OpenChecksIntegrity ==
    [][Open =>
          /\ health # "ok" =>
                last'.err # "none" /\ conn' = "closed" /\ UNCHANGED store
          /\ last'.err = "none" => health = "ok"]_vars

\* C19: every operation that changes the title, the content or the folder
\* reference of a note sets its last-modified time to the time of the
\* change: updateNote, moveNote, and the clearing of the folder reference
\* when the folder of the note is deleted.
C19_ChangeRefreshesUpdatedAt ==
    [][\A n \in DOMAIN notes \cap DOMAIN notes' :
          (\/ notes'[n].title # notes[n].title
           \/ notes'[n].content # notes[n].content
           \/ notes'[n].folder_id # notes[n].folder_id)
          => notes'[n].updated_at = CurrentTimestamp(now)]_vars

\* Folder f is among its own ancestors.
OwnAncestor(f) == f \in Up(folders[f].parent_id, {})

\* Folder f is a root or below one.
Rooted(f) == \E g \in Up(f, {}) : folders[g].parent_id = NULL

\* C20: moveFolder performs no cycle check: moveFolder(id, target) with
\* target the folder itself or one of its descendants, and no folder of
\* the same name already under target, succeeds; afterwards the folder is
\* its own ancestor and no folder of its subtree is reachable from a root.
C20_MoveFolderAllowsCycle ==
    [][\A id \in FolderIds, target \in FolderIds :
          (/\ last'.op = "moveFolder" /\ last'.id = id
           /\ id \in DOMAIN folders
           /\ target \in Subtree(id)
           /\ ~\E f \in DOMAIN folders \ {id} :
                 /\ folders[f].parent_id = target
                 /\ folders[f].name = folders[id].name
           /\ MoveFolder(id, target))
          => /\ last'.err = "none"
             /\ folders'[id].parent_id = target
             /\ OwnAncestor(id)'
             /\ \A f \in Subtree(id) : ~Rooted(f)']_vars

\* A folder has been moved under one of its proper descendants while
\* another folder is still a root.
C20_Witness ==
    /\ last.op = "moveFolder" /\ last.err = "none"
    /\ last.id \in DOMAIN folders
    /\ folders[last.id].parent_id \notin {NULL, last.id}
    /\ OwnAncestor(last.id) /\ ~Rooted(last.id)
    /\ \E g \in DOMAIN folders : folders[g].parent_id = NULL

\* C21: on a store whose folders and notes tables were created by the
\* earlier schema version (db_utils.Database) and which DatabaseManager has
\* opened, createFolder with an empty name or with the name of a folder
\* already under the same existing parent fails, and so does createNote
\* with an empty title or with the title of a note already in the same
\* existing folder.
C21_LegacyStoreEnforcesRules ==
    [][/\ \A name \in Names, parent \in Refs :
            (/\ last'.op = "createFolder"
             /\ \/ name = ""
                \/ /\ parent \in DOMAIN folders
                   /\ \E f \in DOMAIN folders :
                         /\ folders[f].parent_id = parent
                         /\ folders[f].name = name
             /\ CreateFolder(name, parent))
            => last'.err # "none" /\ folders' = folders
       /\ \A title \in Titles, folder \in NoteRefs :
            (/\ last'.op = "createNote"
             /\ \/ title = ""
                \/ /\ folder \in DOMAIN folders
                   /\ \E n \in DOMAIN notes :
                         /\ notes[n].folder_id = folder
                         /\ notes[n].title = title
             /\ CreateNote(title, "beta", folder))
            => last'.err # "none" /\ notes' = notes]_vars

\* Every parent_id and every folder_id is NULL or the id of a folder.
ReferencesExist ==
    /\ \A f \in DOMAIN folders :
          folders[f].parent_id \in {NULL} \cup DOMAIN folders
    /\ \A n \in DOMAIN notes :
          notes[n].folder_id \in {NULL} \cup DOMAIN folders

C23_HierarchyTerminates ==
    [][(last'.op = "getFullHierarchy" /\ GetFullHierarchyCall)
          => /\ last'.err = "none"
             /\ UNCHANGED store
             /\ LET flat == Flatten(last'.ret)
                IN /\ Len(flat) <= Cardinality(DOMAIN folders)
                   /\ \A i \in 1..Len(flat) :
                         /\ flat[i].id \in DOMAIN folders
                         /\ ~OwnAncestor(flat[i].id)
                         /\ \A j \in 1..Len(flat) :
                               flat[i].id = flat[j].id => i = j]_vars

\* The hierarchy was built while a folder is its own ancestor, and the
\* tree returned has a root with a child.
C23_Witness ==
    /\ last.op = "getFullHierarchy"
    /\ \E f \in DOMAIN folders : OwnAncestor(f)
    /\ \E i \in 1..Len(last.ret) : last.ret[i].children # <<>>

\* C24: a manual save, an auto-save tick or the save on close of the
\* editor leaves the stored title of the open note as it is: after the open
\* note was renamed through the sidebar, the stored title is still the new
\* title after the save.
C24_SaveKeepsRename ==
    [][\A op \in {"save", "autoSave", "closeEvent"} :
          (/\ last'.op = op
           /\ window.current_note # None
           /\ window.current_note[1].id \in DOMAIN notes
           /\ last.op = "renameNote" /\ last.err = "none"
           /\ last.id = window.current_note[1].id
           /\ SaveCurrentNote(op))
          => notes'[last.id].title = notes[last.id].title]_vars

\* C26: renaming a folder through the sidebar changes the name of that
\* folder and creates no row: the folders are the same before and after,
\* and after a rename that raised nothing the folder has the new name.
C26_RenameFolderKeepsIdentity ==
    [][\A id \in FolderIds, name \in Names :
          (id \in DOMAIN folders /\ OnFolderRenamed(id, name))
          => /\ DOMAIN folders' = DOMAIN folders
             /\ last'.err = "none" => folders'[id].name = name]_vars

\* C25: when the application starts and the health check of the store
\* succeeds (safe_reset_database found the database healthy), every folder
\* and every note of the store is still there after startup, unchanged.
C25_HealthyStartupKeepsData ==
    [][(/\ last'.op = "startup" /\ last'.err = "none"
        /\ last'.ret = Some(TRUE)
        /\ conn = "closed" /\ conn' = "open"
        /\ Startup)
          => /\ \A f \in DOMAIN folders :
                   f \in DOMAIN folders' /\ folders'[f] = folders[f]
             /\ \A n \in DOMAIN notes :
                   n \in DOMAIN notes' /\ notes'[n] = notes[n]]_vars

\* C27: identities are never reused.  seqFolders and seqNotes are the
\* largest ids given so far (the sqlite_sequence rows); they never go down,
\* and the id that a successful createFolder or createNote returns is
\* larger than every id given before, deleted rows included.
C27_IdsNeverReused ==
    [][/\ seqFolders' >= seqFolders
       /\ seqNotes' >= seqNotes
       /\ (last'.op = "createFolder" /\ last'.err = "none"
            /\ folders' # folders)
             => /\ last'.id > seqFolders /\ last'.id = seqFolders'
                /\ DOMAIN folders' = DOMAIN folders \cup {last'.id}
       /\ (last'.op = "createNote" /\ last'.err = "none" /\ notes' # notes)
             => /\ last'.id > seqNotes /\ last'.id = seqNotes'
                /\ DOMAIN notes' = DOMAIN notes \cup {last'.id}]_vars

\* A note was created after the note with the largest id had been deleted,
\* in a store where the folder with the largest id has been deleted too.
C27_Witness ==
    /\ last.op = "createNote" /\ last.err = "none"
    /\ last.id = seqNotes /\ last.id \in DOMAIN notes
    /\ last.id > 1 /\ (last.id - 1) \notin DOMAIN notes
    /\ seqFolders > 0 /\ seqFolders \notin DOMAIN folders

\* C28: updateNote or moveNote called with the id of a note that does not
\* exist returns without an error and changes nothing: the notes (none
\* created, none modified), the folders and the search index are as
\* before.
C28_MissingNoteUntouched ==
    [][\A id \in NoteIds \ DOMAIN notes :
          /\ (/\ last'.op = "updateNote" /\ last'.id = id
               /\ \E title \in Titles \ {""}, content \in Contents :
                     UpdateNote(id, title, content, NULL))
                => /\ last'.err = "none"
                   /\ notes' = notes /\ fts' = fts /\ UNCHANGED store
          /\ (/\ last'.op = "moveNote" /\ last'.id = id
               /\ \E target \in NoteRefs : MoveNote(id, target))
                => /\ last'.err = "none"
                   /\ notes' = notes /\ fts' = fts /\ UNCHANGED store]_vars

\* updateNote was called with the id of a note that has been deleted,
\* while another note exists.
C28_Witness ==
    /\ last.op = "updateNote" /\ last.err = "none"
    /\ last.id \in 1..seqNotes /\ last.id \notin DOMAIN notes
    /\ DOMAIN notes # {}

\* C29: parentChain of a note id that does not exist raises nothing and
\* returns an empty result.
C29_ParentsOfMissingNote ==
    [][\A id \in NoteIds \ DOMAIN notes :
          (/\ last'.op = "getNoteParents" /\ last'.id = id
           /\ GetNoteParentsCall(id))
          => last'.err = "none" /\ last'.ret = <<>>]_vars

\* C30: the sequence search returns is sorted under SearchResult's own
\* ordering: for a result a returned before a result b of a different rank,
\* b < a is false.
C30_ResultsSortedByLt ==
    [][(last'.op = "search" /\ last'.err = "none")
          => \A i \in DOMAIN last'.ret, j \in DOMAIN last'.ret :
                (i < j /\ last'.ret[i].rank # last'.ret[j].rank)
                  => ~SearchResultLt(last'.ret[j], last'.ret[i])]_vars

TypeOK ==
    /\ conn \in {"open", "closed"}
    /\ tables \subseteq AllTables
    /\ triggers \subseteq AllTriggers
    /\ DOMAIN folders \subseteq FolderIds
    /\ DOMAIN notes \subseteq NoteIds
    /\ seqFolders \in 0..MaxFolders
    /\ seqNotes \in 0..MaxNotes
    /\ now \in 0..MaxClock
    /\ ftsDamaged \in BOOLEAN
    /\ health \in {"ok", "problem", "malformed"}
    /\ rules \subseteq AllRules
    /\ window.modified \in BOOLEAN

====
